---------------------------- MODULE Spec2Model ----------------------------
(***************************************************************************)
(* Model of the WGISD dataset preparation scripts (src/scripts/*.py):      *)
(*   convert_yolo_to_csv.py      yolo_to_absolute, convert_yolo_to_csv     *)
(*   generate_json_annotations.py parse_yolo_annotation                    *)
(*   convert_to_coco.py          _parse_csv_boxes,                         *)
(*                               _collect_annotations_for_split            *)
(*   organize_dataset.py         main (split allocation)                   *)
(*   convert_npz_to_png.py       convert_npz_to_png                        *)
(*                                                                         *)
(* Each script is a batch transform of files, so each has a specification  *)
(* of its own (SpecGeom, SpecYolo, SpecCsv, SpecColl, SpecSplit, SpecMask):*)
(* Init draws the script's inputs, one action runs one function of the     *)
(* script to completion, and the variables of the other scripts stay idle. *)
(*                                                                         *)
(* Numbers.  A normalized YOLO coordinate is the rational n/Den, held as   *)
(* its numerator n.  yolo_to_absolute computes in floating point; the      *)
(* model computes the same expressions exactly, holding an absolute        *)
(* coordinate in units of 1/Scale pixel (Scale = 2*Den, so that the        *)
(* halving of the width is exact).  parse_yolo_annotation truncates with   *)
(* int(), so its results are whole pixels.                                 *)
(***************************************************************************)
EXTENDS Integers, Sequences, FiniteSets, TLC

VARIABLES
    pc,            \* position of the script that runs: "start" or "done"
    \* ---- convert_yolo_to_csv.py / generate_json_annotations.py
    yolo_bbox,     \* argument of yolo_to_absolute: [cls, cx, cy, w, h]
    img_width,     \* image size in pixels
    img_height,
    img_ok,        \* Image.open succeeds on the image file
    abs_box,       \* value returned by yolo_to_absolute
    yolo_file,     \* the .txt file: [exists, lines]
    csv_written,   \* the CSV file convert_yolo_to_csv wrote: [exists, rows]
    csv_ret,       \* its return value: "none" (not run), "True", "False"
    annotations,   \* list returned by parse_yolo_annotation
    unique_ids,    \* values generate_unique_id returns, call by call
    parse_ret,     \* "none" (not run), "returned", "caught" (except branch ran)
    json_data,     \* document of generate_json_annotation: [images, annotations, categories]
    \* ---- convert_to_coco.py
    csv_file,      \* the per-image CSV: [exists, header, rows]
    boxes,         \* list returned by _parse_csv_boxes
    boxes_ret,     \* "none", "returned", "raised"
    split_list,    \* names in sets/<split>.txt
    images_dir,    \* stem -> extension of its image file: "none", "jpg", "png"
    image_dims,    \* stem -> <<width, height>> of the image file
    csv_dir,       \* stem -> CSV file of that stem
    images,        \* Collection: list of image records
    anns,          \* Collection: list of annotation records
    coll_ret,      \* "none", "returned", "raised"
    \* ---- organize_dataset.py
    train_images,  \* names read from train.txt (declared_train)
    test_images,   \* names read from test.txt (declared_test)
    image_stems,   \* stems of the image files found (all_image_stems)
    sets,          \* the five lists written under sets/
    \* ---- convert_npz_to_png.py
    mask_array,    \* [h, w, c, px]: px[i][j][k] in {0,1}
    method,
    npz_exists,
    loaded,        \* np.load was performed
    merged_mask,   \* the array handed to Image.fromarray
    npz_ret,       \* "none", "True", "False", "raised"
    \* ---- convert_to_coco.py: convert
    coco,          \* split -> the Collection written for it: [images, anns]
    coco_ret,      \* "none", "returned", "raised"
    \* ---- add_berry_counts_to_json.py / organize_video_frames.py
    json_doc,      \* the JSON file: [exists, data]
    berry_count,   \* argument of the last add_berry_count_to_json call
    berry_ret,     \* its return value: "none", "True", "False"
    berry_calls    \* number of calls made

geomVars  == <<yolo_bbox, abs_box>>
sizeVars  == <<img_width, img_height, img_ok>>
yoloVars  == <<yolo_file, csv_written, csv_ret, annotations, unique_ids, parse_ret,
               json_data>>
csvVars   == <<csv_file, boxes, boxes_ret>>
collVars  == <<split_list, images_dir, image_dims, csv_dir, images, anns, coll_ret>>
splitVars == <<train_images, test_images, image_stems, sets>>
maskVars  == <<mask_array, method, npz_exists, loaded, merged_mask, npz_ret>>
cocoVars  == <<coco, coco_ret>>
berryVars == <<json_doc, berry_count, berry_ret, berry_calls>>
vars == <<pc, geomVars, sizeVars, yoloVars, csvVars, collVars, splitVars, maskVars,
          cocoVars, berryVars>>

----------------------------------------------------------------------------
(* Bounds of the model *)

\* A normalized coordinate is n/Den.
Den == 4
\* Image sides are 1..MaxDim pixels.
MaxDim == 2
\* Largest YOLO class id in the input.
MaxClass == 1
\* A YOLO file has at most MaxLines lines.
MaxLines == 2
\* generate_unique_id draws from 1..NumIds.
NumIds == 2
\* A CSV file has at most MaxRows data rows.
MaxRows == 2
\* The image stems of the dataset are 1..NumStems.
NumStems == 3
\* The names train.txt and test.txt can declare are 1..NumNames.
NumNames == 6
\* A mask array has 0..MaxChannels instance channels.
MaxChannels == 2

----------------------------------------------------------------------------
(* Arithmetic helpers (Python builtins) *)

Min(a, b) == IF a <= b THEN a ELSE b
Max(a, b) == IF a >= b THEN a ELSE b

\* int(a/b) for b > 0: Python's int() truncates toward zero.
TruncDiv(a, b) == IF a >= 0 THEN a \div b ELSE -((-a) \div b)

\* Absolute coordinates are held in units of 1/Scale pixel.
Scale == 2 * Den

----------------------------------------------------------------------------
(* Idle values: the state of a script that is not the one running *)

NoBox == [x |-> 0, y |-> 0, width |-> 0, height |-> 0, label |-> 0]
NoYoloBox == [cls |-> 0, cx |-> 0, cy |-> 0, w |-> 0, h |-> 0]

IdleGeom == yolo_bbox = NoYoloBox /\ abs_box = NoBox
IdleSize == img_width = 1 /\ img_height = 1 /\ img_ok = TRUE
NoJsonData == [images |-> <<>>, annotations |-> <<>>, categories |-> <<>>]
IdleYolo ==
    /\ json_data = NoJsonData
    /\ yolo_file = [exists |-> FALSE, lines |-> <<>>]
    /\ csv_written = [exists |-> FALSE, rows |-> <<>>]
    /\ csv_ret = "none"
    /\ annotations = <<>>
    /\ unique_ids = <<>>
    /\ parse_ret = "none"
IdleCsv ==
    /\ csv_file = [exists |-> FALSE, header |-> <<>>, rows |-> <<>>]
    /\ boxes = <<>>
    /\ boxes_ret = "none"
IdleColl ==
    /\ split_list = {}
    /\ images_dir = <<>>
    /\ image_dims = <<>>
    /\ csv_dir = <<>>
    /\ images = <<>>
    /\ anns = <<>>
    /\ coll_ret = "none"
IdleSplit ==
    /\ train_images = {}
    /\ test_images = {}
    /\ image_stems = {}
    /\ sets = [train |-> <<>>, val |-> <<>>, test |-> <<>>,
               all |-> <<>>, train_val |-> <<>>]
IdleMask ==
    /\ mask_array = [h |-> 0, w |-> 0, c |-> 0, px |-> <<>>]
    /\ method = "merge"
    /\ npz_exists = FALSE
    /\ loaded = FALSE
    /\ merged_mask = <<>>
    /\ npz_ret = "none"
NoCollection == [images |-> <<>>, anns |-> <<>>]
IdleCoco ==
    /\ coco = [train |-> NoCollection, val |-> NoCollection, test |-> NoCollection]
    /\ coco_ret = "none"
IdleBerry ==
    /\ json_doc = [exists |-> FALSE, data |-> <<>>]
    /\ berry_count = 0
    /\ berry_ret = "none"
    /\ berry_calls = 0

----------------------------------------------------------------------------
(* convert_yolo_to_csv.py: yolo_to_absolute *)

\* Numerators of the normalized values the model feeds in: [0,1] is 0..Den,
\* and one value below and one above it.
NormRange == (-1)..(Den + 1)
YoloBoxes == [cls : 0..MaxClass, cx : NormRange, cy : NormRange,
              w : NormRange, h : NormRange]
Dims == 1..MaxDim

\* AxisToAbsolute without the shrinking of the extent (lines 30-31 dropped).
AxisToAbsolute_NoShrink(c, e, side) ==
    LET center_abs == 2 * c * side
        extent_abs == 2 * e * side
        o0 == center_abs - extent_abs \div 2
        o  == Max(0, Min(o0, (side - 1) * Scale))
    IN  <<o, extent_abs>>

\* AxisToAbsolute with the origin left at the centre (the half extent is not
\* subtracted).
AxisToAbsolute_CenterOrigin(c, e, side) ==
    LET center_abs == 2 * c * side
        extent_abs == 2 * e * side
        o0 == center_abs
        o  == Max(0, Min(o0, (side - 1) * Scale))
    IN  <<o, Min(extent_abs, side * Scale - o)>>

\* One axis of yolo_to_absolute: centre c and extent e (numerators over Den)
\* on an image side of `side` pixels; returns <<origin, extent>> in 1/Scale px.
AxisToAbsolute(c, e, side) ==
    LET center_abs == 2 * c * side          \* center * img_side
        extent_abs == 2 * e * side          \* extent * img_side
        o0 == center_abs - extent_abs \div 2
        o  == Max(0, Min(o0, (side - 1) * Scale))
    IN  <<o, Min(extent_abs, side * Scale - o)>>

\* yolo_to_absolute returning the class id as it was read (no + 1).
yolo_to_absolute_NoShift(b, W, H) ==
    LET ax == AxisToAbsolute(b.cx, b.w, W)
        ay == AxisToAbsolute(b.cy, b.h, H)
    IN  [x |-> ax[1], y |-> ay[1], width |-> ax[2], height |-> ay[2],
         label |-> b.cls]

yolo_to_absolute(b, W, H) ==
    LET ax == AxisToAbsolute(b.cx, b.w, W)
        ay == AxisToAbsolute(b.cy, b.h, H)
    IN  [x |-> ax[1], y |-> ay[1], width |-> ax[2], height |-> ay[2],
         label |-> b.cls + 1]

InitGeom ==
    /\ pc = "start"
    /\ yolo_bbox \in YoloBoxes
    /\ abs_box = NoBox
    /\ img_width \in Dims
    /\ img_height \in Dims
    /\ img_ok = TRUE
    /\ IdleYolo /\ IdleCsv /\ IdleColl /\ IdleSplit /\ IdleMask
    /\ IdleCoco /\ IdleBerry

CallYoloToAbsolute ==
    /\ pc = "start"
    /\ abs_box' = yolo_to_absolute(yolo_bbox, img_width, img_height)
    /\ pc' = "done"
    /\ UNCHANGED <<yolo_bbox, sizeVars, yoloVars, csvVars, collVars, splitVars, maskVars,
                   cocoVars, berryVars>>

NextGeom == CallYoloToAbsolute

SpecGeom == InitGeom /\ [][NextGeom]_vars

\* cx, cy, w, h all in [0,1]
Normalized(b) == /\ b.cx \in 0..Den /\ b.cy \in 0..Den
                 /\ b.w \in 0..Den /\ b.h \in 0..Den

\* C1: for every normalized box with cx, cy, w, h in [0,1] and every image
\* size W, H > 0, the box returned by yolo_to_absolute has 0 <= x, 0 <= y,
\* x + width <= W and y + height <= H.
C1_BoxInsideImage ==
    (pc = "done" /\ Normalized(yolo_bbox)) =>
        /\ 0 <= abs_box.x
        /\ 0 <= abs_box.y
        /\ abs_box.x + abs_box.width <= img_width * Scale
        /\ abs_box.y + abs_box.height <= img_height * Scale

\* A normalized box that overhangs the right and lower edges was converted
\* and its extent was shrunk to fit.
C1_Witness ==
    /\ pc = "done" /\ Normalized(yolo_bbox)
    /\ yolo_bbox.cx = Den /\ yolo_bbox.w = Den
    /\ yolo_bbox.cy = Den /\ yolo_bbox.h = Den
    /\ img_width = 2
    /\ abs_box.x = Scale /\ abs_box.width = Scale
    /\ abs_box.width < 2 * yolo_bbox.w * img_width

\* The box lies entirely inside the image: cx - w/2 >= 0, cx + w/2 <= 1,
\* cy - h/2 >= 0, cy + h/2 <= 1, w > 0, h > 0.
Inside(b) ==
    /\ 2 * b.cx - b.w >= 0 /\ 2 * b.cx + b.w <= 2 * Den
    /\ 2 * b.cy - b.h >= 0 /\ 2 * b.cy + b.h <= 2 * Den
    /\ b.w > 0 /\ b.h > 0

\* abs_box is exactly x = cx W - w W / 2, y = cy H - h H / 2, width = w W,
\* height = h H (in units of 1/Scale pixel).
Unadjusted ==
    /\ abs_box.x = (2 * yolo_bbox.cx - yolo_bbox.w) * img_width
    /\ abs_box.y = (2 * yolo_bbox.cy - yolo_bbox.h) * img_height
    /\ abs_box.width = 2 * yolo_bbox.w * img_width
    /\ abs_box.height = 2 * yolo_bbox.h * img_height

\* The top-left corner of the box is at most at pixel (W - 1, H - 1).
CornerInRange ==
    /\ (2 * yolo_bbox.cx - yolo_bbox.w) * img_width <= (img_width - 1) * Scale
    /\ (2 * yolo_bbox.cy - yolo_bbox.h) * img_height <= (img_height - 1) * Scale

\* C18 as stated: for every normalized box that lies entirely inside the
\* image, yolo_to_absolute applies no adjustment: it returns exactly
\* x = cx W - w W / 2, y = cy H - h H / 2, width = w W, height = h H.
C18_InsideBoxUnadjustedAny ==
    (pc = "done" /\ Inside(yolo_bbox)) => Unadjusted

\* C18 as amended: for every normalized box that lies entirely inside the
\* image and whose top-left corner is at most at pixel (W - 1, H - 1),
\* yolo_to_absolute applies no adjustment.
C18_InsideBoxUnadjusted ==
    (pc = "done" /\ Inside(yolo_bbox) /\ CornerInRange) => Unadjusted

\* A box inside a 2 x 2 image, away from every edge, was converted: its
\* corner is left of and above the last pixel and nothing was adjusted.
C18_Witness ==
    /\ pc = "done" /\ Inside(yolo_bbox) /\ CornerInRange
    /\ img_width = 2 /\ img_height = 2
    /\ 2 * yolo_bbox.cx - yolo_bbox.w > 0 /\ 2 * yolo_bbox.cx + yolo_bbox.w < 2 * Den
    /\ 2 * yolo_bbox.cy - yolo_bbox.h > 0 /\ 2 * yolo_bbox.cy + yolo_bbox.h < 2 * Den
    /\ abs_box.x > 0 /\ abs_box.y > 0
    /\ abs_box.width = 2 * yolo_bbox.w * img_width

----------------------------------------------------------------------------
(* YOLO files: convert_yolo_to_csv and parse_yolo_annotation *)

\* A line of a YOLO file after strip() and split():
\*   "blank"  nothing left after strip()
\*   "short"  fewer than 5 parts
\*   "bad"    5 parts or more, one of the first five not a number
\*   "box"    5 parts or more, the first five numbers (the box read)
InteriorBox == [cls |-> 0, cx |-> Den \div 2, cy |-> Den \div 2,
                w |-> Den \div 2, h |-> Den \div 2]
OverhangBox == [cls |-> MaxClass, cx |-> Den, cy |-> Den, w |-> Den, h |-> Den]
ThinBox     == [cls |-> 0, cx |-> Den \div 2, cy |-> Den \div 2, w |-> 1, h |-> Den]
FileBoxes   == {InteriorBox, OverhangBox, ThinBox}

YoloLine(k, b) == [kind |-> k, box |-> b]
FileLines == {YoloLine(k, NoYoloBox) : k \in {"blank", "short", "bad"}}
             \cup {YoloLine("box", b) : b \in FileBoxes}

SeqsUpTo(S, n) == UNION {[1..k -> S] : k \in 0..n}

YoloFiles == {[exists |-> FALSE, lines |-> <<>>]}
             \cup {[exists |-> TRUE, lines |-> ls] : ls \in SeqsUpTo(FileLines, MaxLines)}

IsBox(l) == l.kind = "box"
IsBad(l) == l.kind = "bad"

\* The lines read before float()/int() raises ValueError on a "bad" line:
\* the try block encloses the whole loop, so the loop ends there.
FirstBad(lines) ==
    IF \E i \in DOMAIN lines : IsBad(lines[i])
    THEN CHOOSE i \in DOMAIN lines :
            IsBad(lines[i]) /\ \A j \in 1..(i - 1) : ~IsBad(lines[j])
    ELSE Len(lines) + 1
ReadBeforeError(lines) == SubSeq(lines, 1, FirstBad(lines) - 1)

\* The boxes of the lines that reach the conversion (len(parts) >= 5).
BoxesOf(lines) == LET bl == SelectSeq(lines, IsBox)
                  IN  [k \in 1..Len(bl) |-> bl[k].box]

\* convert_yolo_to_csv: <<return value, CSV file written>>.  A ValueError
\* anywhere in the file returns False before the CSV is opened for writing.
convert_yolo_to_csv(f, W, H, readable) ==
    IF ~readable
    THEN <<"False", [exists |-> FALSE, rows |-> <<>>]>>
    ELSE IF f.exists /\ FirstBad(f.lines) <= Len(f.lines)
    THEN <<"False", [exists |-> FALSE, rows |-> <<>>]>>
    ELSE LET bs == IF f.exists THEN BoxesOf(f.lines) ELSE <<>>
         IN  <<"True",
               [exists |-> TRUE,
                rows |-> [k \in 1..Len(bs) |->
                            [item |-> k - 1, box |-> yolo_to_absolute(bs[k], W, H)]]]>>

\* One axis of parse_yolo_annotation: int() of the origin and of the extent,
\* then the clamp; whole pixels.
AxisParse(c, e, side) ==
    LET o0 == TruncDiv((2 * c - e) * side, Scale)   \* int((c - e/2) * side)
        e0 == TruncDiv(e * side, Den)               \* int(e * side)
        o  == Max(0, Min(o0, side - 1))
    IN  <<o, Min(e0, side - o)>>

Annotation(b, id, W, H) ==
    LET ax == AxisParse(b.cx, b.w, W)
        ay == AxisParse(b.cy, b.h, H)
    IN  [id |-> id, image_id |-> 0, category_id |-> b.cls + 1,
         bbox |-> <<ax[1], ay[1], ax[2], ay[2]>>,
         area |-> ax[2] * ay[2], iscrowd |-> 0]

\* The values generate_unique_id can return.
UniqueIds == 1..NumIds

\* parse_yolo_annotation: the annotations appended before the first ValueError
\* are returned; ids[k] is the k-th value generate_unique_id returned.
parse_yolo_annotation(f, W, H, ids) ==
    LET bs == IF f.exists THEN BoxesOf(ReadBeforeError(f.lines)) ELSE <<>>
    IN  [k \in 1..Len(bs) |-> Annotation(bs[k], ids[k], W, H)]

InitYolo ==
    /\ pc = "start"
    /\ yolo_file \in YoloFiles
    /\ img_width \in Dims
    /\ img_height \in Dims
    /\ img_ok \in BOOLEAN
    /\ csv_written = [exists |-> FALSE, rows |-> <<>>]
    /\ csv_ret = "none"
    /\ annotations = <<>>
    /\ unique_ids = <<>>
    /\ parse_ret = "none"
    /\ json_data = NoJsonData
    /\ IdleGeom /\ IdleCsv /\ IdleColl /\ IdleSplit /\ IdleMask
    /\ IdleCoco /\ IdleBerry

ConvertYoloToCsv ==
    /\ csv_ret = "none"
    /\ LET r == convert_yolo_to_csv(yolo_file, img_width, img_height, img_ok)
       IN  csv_ret' = r[1] /\ csv_written' = r[2]
    /\ UNCHANGED <<pc, geomVars, sizeVars, yolo_file, annotations, unique_ids,
                   parse_ret, json_data, csvVars, collVars, splitVars, maskVars,
                   cocoVars, berryVars>>

ParseYoloAnnotation ==
    /\ parse_ret = "none"
    /\ LET n == IF yolo_file.exists
                THEN Len(BoxesOf(ReadBeforeError(yolo_file.lines))) ELSE 0
       IN  \E ids \in [1..n -> UniqueIds] :
              /\ unique_ids' = ids
              /\ annotations' = parse_yolo_annotation(yolo_file, img_width,
                                                      img_height, ids)
    /\ parse_ret' = IF yolo_file.exists
                       /\ FirstBad(yolo_file.lines) <= Len(yolo_file.lines)
                    THEN "caught" ELSE "returned"
    /\ UNCHANGED <<pc, geomVars, sizeVars, yolo_file, csv_written, csv_ret,
                   json_data, csvVars, collVars, splitVars, maskVars,
                   cocoVars, berryVars>>

NextYolo == ConvertYoloToCsv \/ ParseYoloAnnotation

SpecYolo == InitYolo /\ [][NextYolo]_vars

----------------------------------------------------------------------------
(* convert_to_coco.py: _parse_csv_boxes *)

\* A cell is a string.  None (csv.DictReader's restval, and the restkey under
\* which it files surplus cells) is a value no cell holds.
NoneVal == "<None>"

\* The numeric cells of the model and what float() makes of them.
Digits == <<"1", "2", "3", "4", "5", "6", "7">>
IsFloat(s) == \E i \in DOMAIN Digits : Digits[i] = s
Float(s) == CHOOSE i \in DOMAIN Digits : Digits[i] = s

\* str.lower() on the column names of the model.
Lower(s) == CASE s = "X" -> "x"
              [] s = "Y" -> "y"
              [] s = "W" -> "w"
              [] s = "H" -> "h"
              [] s = "XC" -> "xc"
              [] s = "Width" -> "width"
              [] s = "Height" -> "height"
              [] OTHER -> s

Headers == { <<"#item", "x", "y", "width", "height", "label">>,
             <<"X", "Y", "W", "H">>,
             <<"x", "xc", "y", "w", "h">>,
             <<"x", "X", "x", "y", "w", "h">> }

\* A data row of `len` cells: cell i is the number i, except cell `badpos`
\* (if any), which holds `badval`.
CsvRow(len, badpos, badval) ==
    [i \in 1..len |-> IF i = badpos THEN badval ELSE Digits[i]]
RowsFor(header) ==
    LET n == Len(header)
    IN  {CsvRow(len, bp, bv) : len \in (n - 1)..(n + 1), bp \in 0..n,
                               bv \in {"", "abc"}}
\* The CSV files with the given header and n data rows.
CsvFilesOf(hd, n) ==
    {[exists |-> TRUE, header |-> hd, rows |-> rs] : rs \in [1..n -> RowsFor(hd)]}
NoCsvFile == [exists |-> FALSE, header |-> <<>>, rows |-> <<>>]

\* csv.DictReader: the row as a dict.  Keys are the field names; a name that
\* occurs twice keeps its last cell; a short row is filled with None.
LastIndex(header, k) ==
    CHOOSE i \in DOMAIN header :
        header[i] = k /\ \A j \in DOMAIN header : header[j] = k => j <= i
FirstIndex(header, k) ==
    CHOOSE i \in DOMAIN header :
        header[i] = k /\ \A j \in DOMAIN header : header[j] = k => j >= i
DictRow(header, row) ==
    [k \in {header[i] : i \in DOMAIN header} |->
        IF LastIndex(header, k) <= Len(row) THEN row[LastIndex(header, k)]
        ELSE NoneVal]
\* Surplus cells are filed under the key None.
HasRestKey(header, row) == Len(row) > Len(header)

\* row_lower = {k.lower(): v for k, v in row.items()}: of two keys with the
\* same lower-case form the one later in the dict's order wins.
RowLower(header, row) ==
    LET d == DictRow(header, row)
        keys == DOMAIN d
    IN  [lk \in {Lower(k) : k \in keys} |->
            LET k == CHOOSE k1 \in keys :
                        /\ Lower(k1) = lk
                        /\ \A k2 \in keys : Lower(k2) = lk =>
                              FirstIndex(header, k2) <= FirstIndex(header, k1)
            IN  d[k]]

\* get with `continue` after a failed float() replaced by `return None`: the
\* first alias that is present and non-empty decides.
RECURSIVE get_NoFallThrough(_, _)
get_NoFallThrough(row_lower, key_variants) ==
    IF key_variants = <<>> THEN <<FALSE, 0>>
    ELSE LET key == Head(key_variants)
         IN  IF /\ key \in DOMAIN row_lower
                /\ row_lower[key] \notin {NoneVal, ""}
             THEN IF IsFloat(row_lower[key])
                  THEN <<TRUE, Float(row_lower[key])>>
                  ELSE <<FALSE, 0>>
             ELSE get_NoFallThrough(row_lower, Tail(key_variants))

\* get(key_variants): <<found, value>>
RECURSIVE get(_, _)
get(row_lower, key_variants) ==
    IF key_variants = <<>> THEN <<FALSE, 0>>
    ELSE LET key == Head(key_variants)
         IN  IF /\ key \in DOMAIN row_lower
                /\ row_lower[key] \notin {NoneVal, ""}
                /\ IsFloat(row_lower[key])
             THEN <<TRUE, Float(row_lower[key])>>
             ELSE get(row_lower, Tail(key_variants))

\* One row: the sequence of boxes (none or one) it contributes.
RowBoxes(header, row) ==
    LET rl == RowLower(header, row)
        x == get(rl, <<"x", "xc", "x_center">>)
        y == get(rl, <<"y", "yc", "y_center">>)
        w == get(rl, <<"w", "width", "dx">>)
        h == get(rl, <<"h", "height", "dy">>)
    IN  IF x[1] /\ y[1] /\ w[1] /\ h[1]
        THEN <<[x |-> x[2], y |-> y[2], width |-> w[2], height |-> h[2]]>>
        ELSE <<>>

RECURSIVE RowsBoxes(_, _)
RowsBoxes(header, rows) ==
    IF rows = <<>> THEN <<>>
    ELSE IF Head(rows) = <<>> THEN RowsBoxes(header, Tail(rows))  \* blank line
    ELSE RowBoxes(header, Head(rows)) \o RowsBoxes(header, Tail(rows))

\* _parse_csv_boxes: <<outcome, boxes>>.  None.lower() on the key of the
\* surplus cells raises AttributeError, which nothing in the function catches.
_parse_csv_boxes(f) ==
    IF ~f.exists THEN <<"returned", <<>>>>
    ELSE IF \E i \in DOMAIN f.rows : HasRestKey(f.header, f.rows[i])
    THEN <<"raised", <<>>>>
    ELSE <<"returned", RowsBoxes(f.header, f.rows)>>

InitCsv ==
    /\ pc = "start"
    /\ \/ csv_file = NoCsvFile
       \/ \E hd \in Headers, n \in 0..MaxRows : csv_file \in CsvFilesOf(hd, n)
    /\ boxes = <<>>
    /\ boxes_ret = "none"
    /\ IdleGeom /\ IdleSize /\ IdleYolo /\ IdleColl /\ IdleSplit /\ IdleMask
    /\ IdleCoco /\ IdleBerry

ParseCsvBoxes ==
    /\ boxes_ret = "none"
    /\ LET r == _parse_csv_boxes(csv_file)
       IN  boxes_ret' = r[1] /\ boxes' = r[2]
    /\ pc' = "done"
    /\ UNCHANGED <<geomVars, sizeVars, yoloVars, csv_file, collVars, splitVars,
                   maskVars,
                   cocoVars, berryVars>>

NextCsv == ParseCsvBoxes

SpecCsv == InitCsv /\ [][NextCsv]_vars

\* The header with every column name in lower case.
LowerHeader(header) == [i \in DOMAIN header |-> Lower(header[i])]

\* C11: for any CSV table, changing only the letter case of the header's
\* column names does not change the list of boxes _parse_csv_boxes returns:
\* the table read gives the boxes its all-lower-case spelling gives.
C11_HeaderCaseIrrelevant ==
    (boxes_ret # "none" /\ csv_file.exists) =>
        boxes = _parse_csv_boxes([csv_file EXCEPT
                                    !.header = LowerHeader(csv_file.header)])[2]

\* The aliases of the four logical fields, in priority order.
XAliases == <<"x", "xc", "x_center">>
YAliases == <<"y", "yc", "y_center">>
WAliases == <<"w", "width", "dx">>
HAliases == <<"h", "height", "dy">>

\* Some column of the row carries one of the aliases (compared without case)
\* and holds a number.
FieldResolves(header, row, aliases) ==
    \E i \in DOMAIN header :
        /\ \E k \in DOMAIN aliases : Lower(header[i]) = aliases[k]
        /\ i <= Len(row)
        /\ IsFloat(row[i])
AllFourResolve(header, row) ==
    /\ FieldResolves(header, row, XAliases)
    /\ FieldResolves(header, row, YAliases)
    /\ FieldResolves(header, row, WAliases)
    /\ FieldResolves(header, row, HAliases)

\* C12: _parse_csv_boxes emits exactly one box per data row in which all
\* four of x, y, width and height resolve, and no box for a row in which any
\* of the four is absent, empty or unparseable: the list returned has as many
\* boxes as the file has rows that resolve.
C12_OneBoxPerResolvingRow ==
    (boxes_ret # "none" /\ csv_file.exists) =>
        Len(boxes) = Cardinality({i \in DOMAIN csv_file.rows :
                                    AllFourResolve(csv_file.header, csv_file.rows[i])})

\* The alias (a key of row_lower) holds a non-empty value float() accepts.
Parses(row_lower, key) ==
    /\ key \in DOMAIN row_lower
    /\ row_lower[key] \notin {NoneVal, ""}
    /\ IsFloat(row_lower[key])
\* <<found, value>> of the first alias, in priority order, that parses.
FirstParsing(row_lower, aliases) ==
    IF \E k \in DOMAIN aliases : Parses(row_lower, aliases[k])
    THEN LET k == CHOOSE k1 \in DOMAIN aliases :
                     /\ Parses(row_lower, aliases[k1])
                     /\ \A j \in 1..(k1 - 1) : ~Parses(row_lower, aliases[j])
         IN  <<TRUE, Float(row_lower[aliases[k]])>>
    ELSE <<FALSE, 0>>
\* Every one of the four fields has an alias that parses.
AllFourParse(header, row) ==
    LET rl == RowLower(header, row)
    IN  /\ FirstParsing(rl, XAliases)[1] /\ FirstParsing(rl, YAliases)[1]
        /\ FirstParsing(rl, WAliases)[1] /\ FirstParsing(rl, HAliases)[1]

\* C16: each logical field of a box takes the value of the first alias, in
\* the order x <- (x, xc, x_center), y <- (y, yc, y_center),
\* width <- (w, width, dx), height <- (h, height, dy), whose column is
\* present with a non-empty value that parses as a number; an earlier alias
\* that is present but empty or unparseable is passed over, and a row gives
\* no box only if one of its fields has no alias that parses.
C16_FirstParsingAliasWins ==
    (boxes_ret = "returned" /\ csv_file.exists) =>
        LET hd == csv_file.header
            rs == SelectSeq(csv_file.rows, LAMBDA r : AllFourParse(hd, r))
        IN  boxes = [k \in 1..Len(rs) |->
                       LET rl == RowLower(hd, rs[k])
                       IN  [x |-> FirstParsing(rl, XAliases)[2],
                            y |-> FirstParsing(rl, YAliases)[2],
                            width |-> FirstParsing(rl, WAliases)[2],
                            height |-> FirstParsing(rl, HAliases)[2]]]

\* The file has the columns x and xc; the x cell of its first row is not a
\* number and the box of that row takes its x from xc; another row has no
\* number in its only y column and gives no box.
C16_Witness ==
    /\ boxes_ret = "returned"
    /\ csv_file.exists
    /\ csv_file.header = <<"x", "xc", "y", "w", "h">>
    /\ Len(csv_file.rows) = 2
    /\ csv_file.rows[1][1] = "abc" /\ csv_file.rows[1][2] = "2"
    /\ Len(csv_file.rows[2]) = 5 /\ csv_file.rows[2][3] = ""
    /\ Len(boxes) = 1
    /\ boxes[1].x = 2

----------------------------------------------------------------------------
(* convert_to_coco.py: _collect_annotations_for_split *)

\* Image stems.  A stem is held as its rank in the lexicographic order of the
\* names, so sorted() on names is the order of the integers.
Stems == 1..NumStems

\* sorted(S) for a set of stems (or of names held as ranks).
RECURSIVE Sorted(_)
Sorted(S) ==
    IF S = {} THEN <<>>
    ELSE LET m == CHOOSE a \in S : \A b \in S : a <= b
         IN  <<m>> \o Sorted(S \ {m})

Range(q) == {q[i] : i \in DOMAIN q}

\* The CSV files the images directory can hold beside an image.
CocoHeader == <<"#item", "x", "y", "width", "height", "label">>
GoodRow    == CsvRow(Len(CocoHeader), 0, "")
ShiftRow   == [i \in 1..Len(CocoHeader) |-> Digits[i + 1]]
SurplusRow == CsvRow(Len(CocoHeader) + 1, 0, "")
CollCsvFiles ==
    { [exists |-> FALSE, header |-> <<>>, rows |-> <<>>],
      [exists |-> TRUE, header |-> CocoHeader, rows |-> <<GoodRow, ShiftRow>>],
      [exists |-> TRUE, header |-> CocoHeader, rows |-> <<GoodRow, SurplusRow>>] }

\* image_stems: the split list, or every image of the directory when the
\* list is empty or missing.
StemsOfSplit(list, dir) ==
    IF list # {} THEN list
    ELSE {st \in DOMAIN dir : dir[st] # "none"}

\* The extension found for a stem: .jpg is tried first, then .png.
FoundExt(e) == IF e = "jpg" THEN "jpg" ELSE "png"

\* The loop body with the `continue` of the missing image dropped.
CollectStep_NoContinue(acc, stem, dir, dims, csvs) ==
    LET r == _parse_csv_boxes(csvs[stem])
        bs == r[2]
    IN  [images |-> IF dir[stem] = "none" THEN acc.images
                    ELSE Append(acc.images,
                                [id |-> acc.image_id_counter,
                                 file_name |-> [stem |-> stem, ext |-> FoundExt(dir[stem])],
                                 width |-> dims[stem][1], height |-> dims[stem][2]]),
         anns |-> acc.anns \o
                  [k \in 1..Len(bs) |->
                     [id |-> acc.ann_id_counter + k - 1,
                      image_id |-> acc.image_id_counter,
                      category_id |-> 1,
                      bbox |-> <<bs[k].x, bs[k].y, bs[k].width, bs[k].height>>,
                      area |-> bs[k].width * bs[k].height,
                      iscrowd |-> 0]],
         image_id_counter |-> IF dir[stem] = "none" THEN acc.image_id_counter
                              ELSE acc.image_id_counter + 1,
         ann_id_counter |-> acc.ann_id_counter + Len(bs),
         raised |-> acc.raised \/ r[1] = "raised"]

\* The loop body with the annotation counter restarted for every image.
CollectStep_AnnPerImage(acc, stem, dir, dims, csvs) ==
    IF dir[stem] = "none" THEN acc
    ELSE LET r == _parse_csv_boxes(csvs[stem])
             bs == r[2]
         IN  [images |-> Append(acc.images,
                                [id |-> acc.image_id_counter,
                                 file_name |-> [stem |-> stem, ext |-> FoundExt(dir[stem])],
                                 width |-> dims[stem][1], height |-> dims[stem][2]]),
              anns |-> acc.anns \o
                       [k \in 1..Len(bs) |->
                          [id |-> k,
                           image_id |-> acc.image_id_counter,
                           category_id |-> 1,
                           bbox |-> <<bs[k].x, bs[k].y, bs[k].width, bs[k].height>>,
                           area |-> bs[k].width * bs[k].height,
                           iscrowd |-> 0]],
              image_id_counter |-> acc.image_id_counter + 1,
              ann_id_counter |-> acc.ann_id_counter + Len(bs),
              raised |-> acc.raised \/ r[1] = "raised"]

\* One pass of the loop `for stem in sorted(image_stems)`.
CollectStep(acc, stem, dir, dims, csvs) ==
    IF dir[stem] = "none" THEN acc                       \* continue
    ELSE LET r == _parse_csv_boxes(csvs[stem])
             bs == r[2]
         IN  [images |-> Append(acc.images,
                                [id |-> acc.image_id_counter,
                                 file_name |-> [stem |-> stem, ext |-> FoundExt(dir[stem])],
                                 width |-> dims[stem][1], height |-> dims[stem][2]]),
              anns |-> acc.anns \o
                       [k \in 1..Len(bs) |->
                          [id |-> acc.ann_id_counter + k - 1,
                           image_id |-> acc.image_id_counter,
                           category_id |-> 1,
                           bbox |-> <<bs[k].x, bs[k].y, bs[k].width, bs[k].height>>,
                           area |-> bs[k].width * bs[k].height,
                           iscrowd |-> 0]],
              image_id_counter |-> acc.image_id_counter + 1,
              ann_id_counter |-> acc.ann_id_counter + Len(bs),
              raised |-> acc.raised \/ r[1] = "raised"]

RECURSIVE CollectLoop(_, _, _, _, _)
CollectLoop(acc, stems, dir, dims, csvs) ==
    IF stems = <<>> \/ acc.raised THEN acc
    ELSE CollectLoop(CollectStep(acc, Head(stems), dir, dims, csvs),
                     Tail(stems), dir, dims, csvs)

\* _collect_annotations_for_split: <<outcome, images, annotations>>.  An
\* exception of _parse_csv_boxes leaves the function; nothing is returned.
_collect_annotations_for_split(list, dir, dims, csvs) ==
    LET acc0 == [images |-> <<>>, anns |-> <<>>, image_id_counter |-> 1,
                 ann_id_counter |-> 1, raised |-> FALSE]
        acc == CollectLoop(acc0, Sorted(StemsOfSplit(list, dir)), dir, dims, csvs)
    IN  IF acc.raised THEN <<"raised", <<>>, <<>>>>
        ELSE <<"returned", acc.images, acc.anns>>

InitColl ==
    /\ pc = "start"
    /\ split_list \in SUBSET Stems
    /\ images_dir \in [Stems -> {"none", "jpg", "png"}]
    /\ image_dims = [st \in Stems |-> <<MaxDim, st>>]
    /\ csv_dir \in [Stems -> CollCsvFiles]
    /\ images = <<>>
    /\ anns = <<>>
    /\ coll_ret = "none"
    /\ IdleGeom /\ IdleSize /\ IdleYolo /\ IdleCsv /\ IdleSplit /\ IdleMask
    /\ IdleCoco /\ IdleBerry

CollectAnnotationsForSplit ==
    /\ coll_ret = "none"
    /\ LET r == _collect_annotations_for_split(split_list, images_dir,
                                               image_dims, csv_dir)
       IN  coll_ret' = r[1] /\ images' = r[2] /\ anns' = r[3]
    /\ pc' = "done"
    /\ UNCHANGED <<geomVars, sizeVars, yoloVars, csvVars, split_list, images_dir,
                   image_dims, csv_dir, splitVars, maskVars,
                   cocoVars, berryVars>>

NextColl == CollectAnnotationsForSplit

SpecColl == InitColl /\ [][NextColl]_vars

----------------------------------------------------------------------------
(* Claims on the annotation records *)

\* The BoundingBox invariant of a box <<x, y, width, height>> in an image of
\* W x H pixels.
BoundingBoxInvariant(b, W, H) ==
    /\ 0 <= b[1] /\ b[1] < W
    /\ 0 <= b[2] /\ b[2] < H
    /\ b[1] + b[3] <= W
    /\ b[2] + b[4] <= H
    /\ b[3] > 0 /\ b[4] > 0

\* C2: every annotation written to an output document, by the single-image
\* generator (parse_yolo_annotation) and by Collection assembly from CSV boxes
\* (_collect_annotations_for_split), satisfies the full BoundingBox invariant
\* relative to the owning image's recorded width and height.
C2_PersistedBoxesValid ==
    /\ \A i \in DOMAIN annotations :
          BoundingBoxInvariant(annotations[i].bbox, img_width, img_height)
    /\ \A i \in DOMAIN anns : \A j \in DOMAIN images :
          images[j].id = anns[i].image_id =>
             BoundingBoxInvariant(anns[i].bbox, images[j].width, images[j].height)

\* C7: when a single line/row of an annotation source fails to parse, only
\* that row is skipped: every well-formed row of the same file still
\* contributes its box and the processing is not aborted.
C7_OnlyBadRowSkipped ==
    /\ (csv_ret # "none" /\ img_ok /\ yolo_file.exists) =>
          /\ csv_ret = "True"
          /\ Len(csv_written.rows) = Len(BoxesOf(yolo_file.lines))
    /\ (parse_ret # "none" /\ yolo_file.exists) =>
          Len(annotations) = Len(BoxesOf(yolo_file.lines))
    /\ (boxes_ret # "none" /\ csv_file.exists) =>
          /\ boxes_ret = "returned"
          /\ boxes = RowsBoxes(csv_file.header,
                               SelectSeq(csv_file.rows,
                                         LAMBDA r : ~HasRestKey(csv_file.header, r)))

\* C13: for every YOLO line with a non-negative integer class id c, the
\* category/label emitted for that box is c + 1, in the CSV rows made with
\* yolo_to_absolute and in the annotations of parse_yolo_annotation.
C13_CategoryIsClassPlusOne ==
    /\ (csv_ret = "True" /\ yolo_file.exists) =>
          \A k \in DOMAIN csv_written.rows :
              csv_written.rows[k].box.label = BoxesOf(yolo_file.lines)[k].cls + 1
    /\ (parse_ret # "none" /\ yolo_file.exists) =>
          \A k \in DOMAIN annotations :
              annotations[k].category_id = BoxesOf(yolo_file.lines)[k].cls + 1

\* Both converters ran on a file whose boxes have class ids 0 and MaxClass:
\* the labels written are 1 and MaxClass + 1.
C13_Witness ==
    /\ csv_ret = "True" /\ parse_ret = "returned"
    /\ Len(yolo_file.lines) = 2
    /\ IsBox(yolo_file.lines[1]) /\ yolo_file.lines[1].box.cls = 0
    /\ IsBox(yolo_file.lines[2]) /\ yolo_file.lines[2].box.cls = MaxClass
    /\ csv_written.rows[1].box.label = 1
    /\ csv_written.rows[2].box.label = MaxClass + 1
    /\ annotations[1].category_id = 1
    /\ annotations[2].category_id = MaxClass + 1

\* C15: within one document produced by generate_json_annotation, the
\* identifiers of its annotations are pairwise distinct, for any number of
\* boxes parsed from the image's YOLO file.
C15_AnnotationIdsDistinct ==
    \A i, j \in DOMAIN annotations :
        i # j => annotations[i].id # annotations[j].id

\* The stems of the split that have an image file.
Resolvable == {st \in StemsOfSplit(split_list, images_dir) : images_dir[st] # "none"}

\* The annotations of the image with identifier id, in Collection order.
AnnsOf(id) == SelectSeq(anns, LAMBDA a : a.image_id = id)

\* The boxes the CSV file of a stem parses to.
CsvBoxesOf(st) == _parse_csv_boxes(csv_dir[st])[2]

\* C5: in every Collection built by _collect_annotations_for_split, image ids
\* are exactly 1..n, assigned in lexicographic order of stem to the images
\* with a resolvable file; annotation ids are exactly 1..m from one counter
\* shared across all images, in image-processing order and, within an image,
\* in box-parse order.
C5_SequentialIds ==
    coll_ret = "returned" =>
      /\ \A k \in DOMAIN images : images[k].id = k
      /\ \A k, l \in DOMAIN images :
            k < l => images[k].file_name.stem < images[l].file_name.stem
      /\ {images[k].file_name.stem : k \in DOMAIN images} = Resolvable
      /\ \A k \in DOMAIN anns : anns[k].id = k
      /\ \A k, l \in DOMAIN anns : k < l => anns[k].image_id <= anns[l].image_id
      /\ \A j \in DOMAIN images :
            LET mine == AnnsOf(images[j].id)
                bs == CsvBoxesOf(images[j].file_name.stem)
            IN  /\ Len(mine) = Len(bs)
                /\ \A k \in DOMAIN mine :
                      mine[k].bbox = <<bs[k].x, bs[k].y, bs[k].width, bs[k].height>>

\* Stems 1 and 3 have an image and two boxes each, stem 2 has none: the
\* Collection holds images 1 and 2 and annotations 1..4.
C5_Witness ==
    /\ coll_ret = "returned"
    /\ StemsOfSplit(split_list, images_dir) = {1, 2, 3}
    /\ images_dir[2] = "none"
    /\ Len(images) = 2 /\ images[2].file_name.stem = 3 /\ images[2].id = 2
    /\ Len(anns) = 4 /\ anns[3].image_id = 2 /\ anns[4].id = 4

\* C6: in every Collection built by _collect_annotations_for_split each
\* annotation's image_id is the id of exactly one image of the Collection; a
\* stem with no image file contributes no image and none of its CSV boxes.
C6_AnnotationsReferenceImages ==
    coll_ret = "returned" =>
      /\ \A k \in DOMAIN anns :
            Cardinality({j \in DOMAIN images : images[j].id = anns[k].image_id}) = 1
      /\ \A st \in Stems : images_dir[st] = "none" =>
            \A j \in DOMAIN images : images[j].file_name.stem # st
      /\ \A j \in DOMAIN images :
            Len(AnnsOf(images[j].id)) = Len(CsvBoxesOf(images[j].file_name.stem))

\* A stem of the split list has a CSV file with boxes but no image file, and
\* the Collection built holds an image with annotations.
C6_Witness ==
    /\ coll_ret = "returned"
    /\ \E st \in split_list :
          images_dir[st] = "none" /\ Len(CsvBoxesOf(st)) > 0
    /\ Len(images) > 0
    /\ Len(anns) > 0

----------------------------------------------------------------------------
(* organize_dataset.py: main, the split lists *)

\* Image names, held as their rank in lexicographic order (as Stems are).
Names == 1..NumNames

\* The image directory holds every name, every name but one, or nothing.
ImageDirs == {Names, {}} \cup {Names \ {n} : n \in Names}

\* sorted(q) for a list q, duplicates kept.
RECURSIVE SortList(_)
SortList(q) ==
    IF q = <<>> THEN <<>>
    ELSE LET i == CHOOSE a \in DOMAIN q : \A b \in DOMAIN q : q[a] <= q[b]
         IN  <<q[i]>> \o SortList(SubSeq(q, 1, i - 1) \o SubSeq(q, i + 1, Len(q)))

\* train_only with the test names left in.
TrainOnly_KeepTest(train, test) == train

\* train_only = train_images - test_images
TrainOnly(train, test) == train \ test

\* val_size rounded up instead of truncated.
ValSize_Ceil(n) == Max(1, (n * 20 + 99) \div 100)

\* val_size = max(1, int(len(train_list) * 0.2))
ValSize(n) == Max(1, (n * 20) \div 100)

\* OrganizeSets with the validation names taken from the end of train_list.
OrganizeSets_ValFromEnd(train, test, stems) ==
    LET train_only  == TrainOnly(train, test)
        train_list  == Sorted(train_only)
        val_size    == Min(ValSize(Len(train_list)), Len(train_list))
        val_list    == SubSeq(train_list, Len(train_list) - val_size + 1,
                              Len(train_list))
        train_final == SubSeq(train_list, 1, Len(train_list) - val_size)
    IN  [train     |-> SortList(train_final),
         val       |-> SortList(val_list),
         test      |-> Sorted(test),
         all       |-> Sorted(stems),
         train_val |-> SortList(train_final \o val_list)]

\* The five lists main writes under sets/.
OrganizeSets(train, test, stems) ==
    LET train_only  == TrainOnly(train, test)
        train_list  == Sorted(train_only)
        val_size    == ValSize(Len(train_list))
        val_list    == SubSeq(train_list, 1, Min(val_size, Len(train_list)))
        train_final == SubSeq(train_list, val_size + 1, Len(train_list))
    IN  [train     |-> SortList(train_final),
         val       |-> SortList(val_list),
         test      |-> Sorted(test),
         all       |-> Sorted(stems),
         train_val |-> SortList(train_final \o val_list)]

InitSplit ==
    /\ pc = "start"
    /\ train_images \in SUBSET Names
    /\ test_images \in SUBSET Names
    /\ image_stems \in ImageDirs
    /\ sets = [train |-> <<>>, val |-> <<>>, test |-> <<>>,
               all |-> <<>>, train_val |-> <<>>]
    /\ IdleGeom /\ IdleSize /\ IdleYolo /\ IdleCsv /\ IdleColl /\ IdleMask
    /\ IdleCoco /\ IdleBerry

OrganizeDataset ==
    /\ pc = "start"
    /\ sets' = OrganizeSets(train_images, test_images, image_stems)
    /\ pc' = "done"
    /\ UNCHANGED <<geomVars, sizeVars, yoloVars, csvVars, collVars, train_images,
                   test_images, image_stems, maskVars,
                   cocoVars, berryVars>>

NextSplit == OrganizeDataset

SpecSplit == InitSplit /\ [][NextSplit]_vars

\* C3: for any declared_train and declared_test (empty and overlapping ones
\* included) the lists written satisfy train /\ val = {}, train /\ test = {},
\* val /\ test = {}, and train_val is the sorted union of train and val.
C3_SplitsDisjoint ==
    pc = "done" =>
      /\ Range(sets.train) \cap Range(sets.val) = {}
      /\ Range(sets.train) \cap Range(sets.test) = {}
      /\ Range(sets.val) \cap Range(sets.test) = {}
      /\ sets.train_val = Sorted(Range(sets.train) \cup Range(sets.val))

\* The declared lists overlap and all three lists written are non-empty.
C3_Witness ==
    /\ pc = "done"
    /\ train_images \cap test_images # {}
    /\ sets.train # <<>> /\ sets.val # <<>> /\ sets.test # <<>>

\* n = |declared_train - declared_test|
NumCandidates == Cardinality(train_images \ test_images)

\* C4 as stated: the validation list has exactly ceil(0.2 n) names when
\* n > 0 and none when n = 0; the training list has the other n - |val|.
C4_ValSizeIsCeil ==
    pc = "done" =>
      LET n == NumCandidates
          v == Len(sets.val)
      IN  /\ n = 0 => v = 0
          /\ n > 0 => (v >= 1 /\ 5 * v >= n /\ 5 * (v - 1) < n)
          /\ Len(sets.train) = n - v

\* C4 as amended: the validation list has max(1, floor(0.2 n)) names when
\* n > 0 and none when n = 0; the training list has the other n - |val|.
C4_ValSizeIsFloorMin1 ==
    pc = "done" =>
      LET n == NumCandidates
          v == Len(sets.val)
      IN  /\ n = 0 => v = 0
          /\ (n > 0 /\ n < 5) => v = 1
          /\ n >= 5 => (5 * v <= n /\ n < 5 * (v + 1))
          /\ Len(sets.train) = n - v

\* Six candidates: one validation name (floor(1.2)), not two (ceil(1.2)).
C4_Witness ==
    /\ pc = "done"
    /\ NumCandidates = 6
    /\ Len(sets.val) = 1
    /\ Len(sets.train) = 5

\* C14: the `all` list contains every name that appears in the train, val or
\* test lists written by the same run, for any declared_train and
\* declared_test and any content of the image directory.
C14_AllContainsSplits ==
    pc = "done" =>
        (Range(sets.train) \cup Range(sets.val) \cup Range(sets.test))
            \subseteq Range(sets.all)

\* C17: for any declared_train and declared_test, train \cup val equals
\* declared_train - declared_test exactly, the test list is declared_test,
\* and every name in val sorts before every name in train; declared_train =
\* {A,B,C,D,E} with declared_test = {E} gives test = {E}, val = {A},
\* train = {B,C,D}.
C17_ValIsPrefixOfCandidates ==
    pc = "done" =>
      /\ Range(sets.train) \cup Range(sets.val) = train_images \ test_images
      /\ Range(sets.test) = test_images
      /\ \A v \in Range(sets.val) : \A t \in Range(sets.train) : v < t
      /\ (train_images = 1..5 /\ test_images = {5}) =>
            /\ sets.test = <<5>>
            /\ sets.val = <<1>>
            /\ sets.train = <<2, 3, 4>>

\* The worked example: five declared training names, the last of them
\* declared for test as well.
C17_Witness ==
    /\ pc = "done"
    /\ train_images = 1..5 /\ test_images = {5}
    /\ sets.test = <<5>>
    /\ sets.val = <<1>>
    /\ sets.train = <<2, 3, 4>>

----------------------------------------------------------------------------
(* convert_npz_to_png.py: convert_npz_to_png *)

\* Spatial shapes <<height, width>> of the mask arrays of the model.
MaskShapes == {<<1, 1>>, <<1, 2>>, <<2, 2>>}

\* Arrays of shape (h, w, c) with values in {0, 1}: px[i][j][k].
MaskArrays ==
    UNION {{[h |-> sh[1], w |-> sh[2], c |-> c, px |-> px] :
               px \in [1..sh[1] -> [1..sh[2] -> [1..c -> {0, 1}]]]} :
           sh \in MaskShapes, c \in 0..MaxChannels}

Methods == {"merge", "first", "max", "other"}

RECURSIVE SumSeq(_)
SumSeq(q) == IF q = <<>> THEN 0 ELSE Head(q) + SumSeq(Tail(q))

\* .astype(np.uint8) * 255
Uint8Times255(v) == ((v % 256) * 255) % 256

\* np.sum(mask_array, axis=(0, 1))[k]
ChannelArea(m, k) ==
    SumSeq([i \in 1..m.h |-> SumSeq([j \in 1..m.w |-> m.px[i][j][k]])])

\* argmax returning the last index of the largest value.
ArgMax_Last(a) ==
    CHOOSE k \in DOMAIN a :
        /\ \A j \in DOMAIN a : a[j] <= a[k]
        /\ \A j \in DOMAIN a : j > k => a[j] < a[k]

\* np.argmax: the first index of the largest value.
ArgMax(a) ==
    CHOOSE k \in DOMAIN a :
        /\ \A j \in DOMAIN a : a[j] <= a[k]
        /\ \A j \in DOMAIN a : j < k => a[j] < a[k]

\* A reduction over the channel axis that takes the smallest value.
AxisMax_Min(q) == CHOOSE v \in Range(q) : \A u \in Range(q) : v <= u

\* np.max over the channel axis, for one pixel.
AxisMax(q) == CHOOSE v \in Range(q) : \A u \in Range(q) : u <= v

\* The three policies, for an array with at least one channel.
MergeMask(m) ==
    [i \in 1..m.h |-> [j \in 1..m.w |-> Uint8Times255(AxisMax(m.px[i][j]))]]
ChannelMask(m, k) ==
    [i \in 1..m.h |-> [j \in 1..m.w |-> Uint8Times255(m.px[i][j][k])]]
MaxMask(m) ==
    ChannelMask(m, ArgMax([k \in 1..m.c |-> ChannelArea(m, k)]))

\* convert_npz_to_png: <<return value, np.load done, merged_mask>>.  Every
\* exception raised inside the try block (np.load on a missing file, np.max
\* and np.argmax on an empty axis, the index 0 of an empty axis, the
\* ValueError of an unknown method) is caught and turned into False.
convert_npz_to_png(exists, m, meth) ==
    IF ~exists THEN <<"False", FALSE, <<>>>>
    ELSE IF meth \notin {"merge", "first", "max"} THEN <<"False", TRUE, <<>>>>
    ELSE IF m.c = 0 THEN <<"False", TRUE, <<>>>>
    ELSE <<"True", TRUE,
           CASE meth = "merge" -> MergeMask(m)
             [] meth = "first" -> ChannelMask(m, 1)
             [] meth = "max"   -> MaxMask(m)>>

InitMask ==
    /\ pc = "start"
    /\ mask_array \in MaskArrays
    /\ method \in Methods
    /\ npz_exists \in BOOLEAN
    /\ loaded = FALSE
    /\ merged_mask = <<>>
    /\ npz_ret = "none"
    /\ IdleGeom /\ IdleSize /\ IdleYolo /\ IdleCsv /\ IdleColl /\ IdleSplit
    /\ IdleCoco /\ IdleBerry

ConvertNpzToPng ==
    /\ npz_ret = "none"
    /\ LET r == convert_npz_to_png(npz_exists, mask_array, method)
       IN  npz_ret' = r[1] /\ loaded' = r[2] /\ merged_mask' = r[3]
    /\ pc' = "done"
    /\ UNCHANGED <<geomVars, sizeVars, yoloVars, csvVars, collVars, splitVars,
                   mask_array, method, npz_exists,
                   cocoVars, berryVars>>

NextMask == ConvertNpzToPng

SpecMask == InitMask /\ [][NextMask]_vars

\* The call ran on a mask file that exists.
Converted(meth) == npz_ret # "none" /\ npz_exists /\ method = meth

\* merged_mask is an h x w array
HasMaskShape ==
    /\ DOMAIN merged_mask = 1..mask_array.h
    /\ \A i \in 1..mask_array.h : DOMAIN merged_mask[i] = 1..mask_array.w

Pixels == (1..mask_array.h) \X (1..mask_array.w)

\* C8: a policy name other than merge, first or max fails with an
\* invalid-argument error that reaches the caller, raised before the mask
\* file is read; it is not reported as an ordinary skipped item.
C8_UnknownPolicyFailsLoudly ==
    (npz_ret # "none" /\ method \notin {"merge", "first", "max"}) =>
        /\ npz_ret = "raised"
        /\ ~loaded

\* C9 as stated: for every mask of shape (H, W, C) with values in {0,1} the
\* merge policy yields an H x W mask whose pixel is foreground exactly when
\* at least one channel marks it foreground.
C9_MergeIsOrAnyChannels ==
    Converted("merge") =>
        /\ HasMaskShape
        /\ \A p \in Pixels :
              (merged_mask[p[1]][p[2]] # 0) <=>
                 (\E k \in 1..mask_array.c : mask_array.px[p[1]][p[2]][k] = 1)

\* C9 as amended: the same for every mask with at least one channel.
C9_MergeIsOr ==
    (Converted("merge") /\ mask_array.c >= 1) =>
        /\ HasMaskShape
        /\ \A p \in Pixels :
              (merged_mask[p[1]][p[2]] # 0) <=>
                 (\E k \in 1..mask_array.c : mask_array.px[p[1]][p[2]][k] = 1)

\* The 2 x 2 mask with channel 0 = [[1,0],[0,0]], channel 1 = [[0,0],[0,1]]
\* was merged to foreground [[1,0],[0,1]].
C9_Witness ==
    /\ Converted("merge")
    /\ mask_array.h = 2 /\ mask_array.w = 2 /\ mask_array.c = 2
    /\ mask_array.px = << << <<1, 0>>, <<0, 0>> >>, << <<0, 0>>, <<0, 1>> >> >>
    /\ merged_mask = << <<255, 0>>, <<0, 255>> >>

\* Number of foreground pixels of channel k.
ForegroundCount(k) ==
    Cardinality({p \in Pixels : mask_array.px[p[1]][p[2]][k] = 1})

\* C10: for every mask with at least one channel the max policy outputs the
\* channel with the largest foreground pixel count, the lowest-indexed one
\* when several share that count.
C10_MaxPicksLargestLowestIndex ==
    (Converted("max") /\ mask_array.c >= 1) =>
        \E k \in 1..mask_array.c :
            /\ \A j \in 1..mask_array.c : ForegroundCount(j) <= ForegroundCount(k)
            /\ \A j \in 1..(k - 1) : ForegroundCount(j) < ForegroundCount(k)
            /\ HasMaskShape
            /\ \A p \in Pixels :
                  merged_mask[p[1]][p[2]] = 255 * mask_array.px[p[1]][p[2]][k]

\* Two channels of one foreground pixel each, at different pixels: the output
\* is the first channel.
C10_Witness ==
    /\ Converted("max")
    /\ mask_array.h = 1 /\ mask_array.w = 2 /\ mask_array.c = 2
    /\ mask_array.px = << << <<1, 0>>, <<0, 1>> >> >>
    /\ merged_mask = << <<255, 0>> >>

----------------------------------------------------------------------------
(* organize_dataset.py then convert_to_coco.py: convert on the lists written *)

Splits == <<"train", "val", "test">>

\* What convert leaves behind, given the outcome r[k] of the k-th split: an
\* exception in a split ends the run; the splits before it are written.
Written(r, k) ==
    IF \A j \in 1..k : r[j][1] = "returned"
    THEN [images |-> r[k][2], anns |-> r[k][3]]
    ELSE NoCollection
ConvertOutcome(r) ==
    <<IF \A j \in DOMAIN r : r[j][1] = "returned" THEN "returned" ELSE "raised",
      [train |-> Written(r, 1), val |-> Written(r, 2), test |-> Written(r, 3)]>>

\* convert: one Collection per split, in the order train, val, test.
convert(lists, dir, dims, csvs) ==
    ConvertOutcome([k \in DOMAIN Splits |->
                      _collect_annotations_for_split(Range(lists[Splits[k]]),
                                                     dir, dims, csvs)])

\* The dataset before the two scripts run: the declared lists, the image
\* directory (one .jpg per stem or none) and a CSV of one row beside each.
InitPipeline ==
    /\ pc = "start"
    /\ train_images \in SUBSET Stems
    /\ test_images \in SUBSET Stems
    /\ images_dir \in [Stems -> {"none", "jpg"}]
    /\ image_stems = {st \in Stems : images_dir[st] # "none"}
    /\ sets = [train |-> <<>>, val |-> <<>>, test |-> <<>>,
               all |-> <<>>, train_val |-> <<>>]
    /\ split_list = {}
    /\ image_dims = [st \in Stems |-> <<MaxDim, st>>]
    /\ csv_dir = [st \in Stems |->
                    [exists |-> TRUE, header |-> CocoHeader, rows |-> <<GoodRow>>]]
    /\ images = <<>>
    /\ anns = <<>>
    /\ coll_ret = "none"
    /\ IdleCoco
    /\ IdleGeom /\ IdleSize /\ IdleYolo /\ IdleCsv /\ IdleMask /\ IdleBerry

Convert ==
    /\ pc = "done"
    /\ coco_ret = "none"
    /\ LET r == convert(sets, images_dir, image_dims, csv_dir)
       IN  coco_ret' = r[1] /\ coco' = r[2]
    /\ UNCHANGED <<pc, geomVars, sizeVars, yoloVars, csvVars, collVars, splitVars,
                   maskVars, berryVars>>

NextPipeline == OrganizeDataset \/ Convert

SpecPipeline == InitPipeline /\ [][NextPipeline]_vars

\* The stems of the images of a split's Collection.
ImageSet(split) ==
    {coco[split].images[k].file_name.stem : k \in DOMAIN coco[split].images}

\* C19: when the train, val and test Collections are assembled from the
\* split lists organize_dataset wrote for the same image directory, the image
\* sets of the three Collections are pairwise disjoint, for any declared
\* lists, those that leave a split list empty included.
C19_CollectionsDisjoint ==
    coco_ret = "returned" =>
      /\ ImageSet("train") \cap ImageSet("val") = {}
      /\ ImageSet("train") \cap ImageSet("test") = {}
      /\ ImageSet("val") \cap ImageSet("test") = {}

----------------------------------------------------------------------------
(* add_berry_counts_to_json.py: add_berry_count_to_json, on the documents *)
(* of organize_video_frames.py: create_empty_json                          *)

\* Berry counts are 0..MaxCount; add_berry_count_to_json is called at most
\* MaxCalls times on the document.
MaxCount == 2
MaxCalls == 2
Counts == 0..MaxCount

\* A JSON object is a function on its keys.  The info block and the image
\* records of the model, with and without the key berry_count.
InfoBlocks == {[version |-> "1.0"]}
              \cup {[version |-> "1.0", berry_count |-> c] : c \in Counts}
ImageRecords == {[file_name |-> "frame-00001.jpg"]}
                \cup {[file_name |-> "frame-00001.jpg", berry_count |-> c] :
                        c \in Counts}
ImagesLists == {<<>>} \cup {<<r>> : r \in ImageRecords}
               \cup {<<r, [file_name |-> "frame-00002.jpg"]>> : r \in ImageRecords}

\* The documents: with or without the key info, with or without the key
\* images.
JsonData ==
    {("annotations" :> <<>>) @@ i @@ m :
        i \in {<<>>} \cup {("info" :> b) : b \in InfoBlocks},
        m \in {<<>>} \cup {("images" :> l) : l \in ImagesLists}}

NoJsonDoc == [exists |-> FALSE, data |-> <<>>]

\* json_data of create_empty_json (the keys the berry count step reads).
create_empty_json ==
    [info |-> [version |-> "1.0", berry_count |-> 0],
     images |-> <<[file_name |-> "frame-00001.jpg", berry_count |-> 0]>>,
     annotations |-> <<>>]

\* add_berry_count_to_json: <<return value, the file afterwards>>.  open() of
\* a missing file raises, and the except branch returns False.
add_berry_count_to_json(doc, count) ==
    IF ~doc.exists THEN <<"False", doc>>
    ELSE LET data == doc.data
             d1 == IF "images" \in DOMAIN data /\ Len(data.images) > 0
                   THEN [data EXCEPT !.images[1] = ("berry_count" :> count) @@ @]
                   ELSE data
             d2 == IF "info" \in DOMAIN d1 /\ "berry_count" \notin DOMAIN d1.info
                   THEN [d1 EXCEPT !.info = ("berry_count" :> count) @@ @]
                   ELSE d1
         IN  <<"True", [doc EXCEPT !.data = d2]>>

InitBerry ==
    /\ pc = "start"
    /\ \/ json_doc = NoJsonDoc
       \/ \E d \in JsonData : json_doc = [exists |-> TRUE, data |-> d]
    /\ berry_count = 0
    /\ berry_ret = "none"
    /\ berry_calls = 0
    /\ IdleGeom /\ IdleSize /\ IdleYolo /\ IdleCsv /\ IdleColl /\ IdleSplit
    /\ IdleMask /\ IdleCoco

\* organize_video_frames.main creates the document when there is none.
CreateEmptyJson ==
    /\ ~json_doc.exists
    /\ json_doc' = [exists |-> TRUE, data |-> create_empty_json]
    /\ UNCHANGED <<pc, geomVars, sizeVars, yoloVars, csvVars, collVars, splitVars,
                   maskVars, cocoVars, berry_count, berry_ret, berry_calls>>

AddBerryCountToJson ==
    /\ berry_calls < MaxCalls
    /\ \E c \in Counts :
          LET r == add_berry_count_to_json(json_doc, c)
          IN  /\ berry_count' = c
              /\ berry_ret' = r[1]
              /\ json_doc' = r[2]
    /\ berry_calls' = berry_calls + 1
    /\ UNCHANGED <<pc, geomVars, sizeVars, yoloVars, csvVars, collVars, splitVars,
                   maskVars, cocoVars>>

NextBerry == CreateEmptyJson \/ AddBerryCountToJson

SpecBerry == InitBerry /\ [][NextBerry]_vars

\* C20: after any sequence of add_berry_count_to_json calls on a document
\* that has an info block and a non-empty images list (one created by
\* create_empty_json included), info.berry_count equals
\* images[0].berry_count, and both equal the count passed to the most recent
\* call.
C20_BerryCountsAgree ==
    (/\ berry_ret = "True"
     /\ "info" \in DOMAIN json_doc.data
     /\ "images" \in DOMAIN json_doc.data
     /\ Len(json_doc.data.images) > 0) =>
        /\ "berry_count" \in DOMAIN json_doc.data.info
        /\ "berry_count" \in DOMAIN json_doc.data.images[1]
        /\ json_doc.data.info.berry_count = berry_count
        /\ json_doc.data.images[1].berry_count = berry_count

----------------------------------------------------------------------------
(* generate_json_annotations.py: generate_json_annotation; the categories  *)
(* lists of the documents                                                   *)

\* The categories list generate_json_annotation writes.
GrapeClusterCategories ==
    <<[id |-> 1, name |-> "GRAPE_CLUSTER", supercategory |-> "GRAPE"]>>

\* The categories list _collect_annotations_for_split returns.
CocoCategories == <<[id |-> 1, name |-> "grape", supercategory |-> "fruit"]>>

\* json_data of generate_json_annotation: image_id is the first value
\* generate_unique_id returned, ids the values it returned inside
\* parse_yolo_annotation; every annotation is given the image's id.
generate_json_annotation(f, W, H, image_id, ids) ==
    LET parsed == parse_yolo_annotation(f, W, H, ids)
    IN  [images |-> <<[id |-> image_id, width |-> W, height |-> H]>>,
         annotations |-> [k \in DOMAIN parsed |->
                            [parsed[k] EXCEPT !.image_id = image_id]],
         categories |-> GrapeClusterCategories]

\* get_image_info reports one size for every image, whatever the file holds:
\* img_width and img_height stand for that size.
InitGen ==
    /\ pc = "start"
    /\ yolo_file \in YoloFiles
    /\ img_width \in Dims
    /\ img_height \in Dims
    /\ img_ok = TRUE
    /\ csv_written = [exists |-> FALSE, rows |-> <<>>]
    /\ csv_ret = "none"
    /\ annotations = <<>>
    /\ unique_ids = <<>>
    /\ parse_ret = "none"
    /\ json_data = NoJsonData
    /\ IdleGeom /\ IdleCsv /\ IdleColl /\ IdleSplit /\ IdleMask
    /\ IdleCoco /\ IdleBerry

GenerateJsonAnnotation ==
    /\ pc = "start"
    /\ LET n == IF yolo_file.exists
                THEN Len(BoxesOf(ReadBeforeError(yolo_file.lines))) ELSE 0
       IN  \E image_id \in UniqueIds, ids \in [1..n -> UniqueIds] :
              /\ unique_ids' = <<image_id>> \o ids
              /\ json_data' = generate_json_annotation(yolo_file, img_width,
                                                       img_height, image_id, ids)
    /\ pc' = "done"
    /\ UNCHANGED <<geomVars, sizeVars, yolo_file, csv_written, csv_ret,
                   annotations, parse_ret, csvVars, collVars, splitVars,
                   maskVars, cocoVars, berryVars>>

NextGen == GenerateJsonAnnotation

SpecGen == InitGen /\ [][NextGen]_vars

\* The ids of the entries of a categories list.
CategoryIds(categories) == {categories[k].id : k \in DOMAIN categories}

\* C21: in every document produced by generate_json_annotation or by
\* convert_to_coco, the category_id of each annotation equals the id of some
\* entry of that same document's categories list, for every class id
\* appearing in the source labels.
C21_CategoryIdsListed ==
    /\ \A k \in DOMAIN json_data.annotations :
          json_data.annotations[k].category_id \in CategoryIds(json_data.categories)
    /\ \A k \in DOMAIN anns :
          anns[k].category_id \in CategoryIds(CocoCategories)
    /\ \A s \in DOMAIN coco : \A k \in DOMAIN coco[s].anns :
          coco[s].anns[k].category_id \in CategoryIds(CocoCategories)

=============================================================================
